---- MODULE Spec2Model ----
(***************************************************************************)
(* Model of apps/postgresql-upgrade/bin/postgresql_upgrade.py:             *)
(* postgres_upgrade(source_version, target_version) as a sequential state  *)
(* machine over the filesystem it reads and changes, the external tools it *)
(* runs and the server process it starts.                                  *)
(***************************************************************************)
EXTENDS Integers, Sequences, FiniteSets, TLC

\* ------------------------------------------------------------------ bounds
\* Longest chain of hops modelled.
MaxHops == 2
\* Failed connection attempts that are counted (the counter saturates).
MaxPolls == 2

\* --------------------------------------------------------------- constants
\* Lowest major version modelled (the version of the usage example).
FirstVersion == 11
\* current_port = 50432
BasePort == 50432

Versions == FirstVersion..(FirstVersion + MaxHops)

POSTGRES_USER == "postgres"
Users == {POSTGRES_USER, "root"}

\* Outputs of /container_memory_limit.sh (MB) that are tried.
RamSizes == {0, 15, 1024}

\* Leftovers of an earlier attempt in POSTGRES_DATA_DIR, one per pattern.
patterns == <<"pg_*.log", "pg_*.custom", "pg_upgrade_dump_globals.sql">>
CruftFiles == {"pg_upgrade_server.log", "pg_dump.custom", "pg_upgrade_dump_globals.sql"}

\* glob.glob(os.path.join(POSTGRES_DATA_DIR, pattern)) over a set of file names
Matches(pattern, files) ==
    CASE pattern = "pg_*.log" -> files \cap {"pg_upgrade_server.log"}
      [] pattern = "pg_*.custom" -> files \cap {"pg_dump.custom"}
      [] OTHER -> files \cap {pattern}

\* ------------------------------------------------------------------- state
VARIABLES
    invocation,       \* 1 for the first run of the script, 2 for a run after it
    source_version,   \* argument
    target_version,   \* argument
    pc,               \* position in postgres_upgrade
    error,            \* NoError or the exception that ended the run
    dataDir,          \* version -> state of /var/lib/postgresql/<version>
    binState,         \* version -> state of /usr/lib/postgresql/<version>/bin
    etcConf,          \* state of /etc/postgresql/
    dataRootFiles,    \* plain files in POSTGRES_DATA_DIR (leftovers, tool byproducts)
    runDir,           \* version -> /var/run/postgresql/<version>-main.pg_stat_tmp exists
    tmpConf,          \* version -> state of /var/tmp/postgresql/conf/<version>
    maintenance_work_mem_statement,
    version,          \* loop variable of the sequencing loop
    current_port,
    old_version,      \* old descriptor of the pair under construction, or NoDesc
    upgrade_pairs,    \* the chain
    hop,              \* index into upgrade_pairs of the pair being run
    postgres_proc,    \* "none", "started", "listening", "dead", "terminated"
    polls,            \* failed connection attempts so far (saturating)
    log               \* external commands and destructive operations, in order

vars == <<invocation, source_version, target_version, pc, error, dataDir, binState, etcConf,
          dataRootFiles, runDir, tmpConf, maintenance_work_mem_statement, version,
          current_port, old_version, upgrade_pairs, hop, postgres_proc, polls, log>>

\* The filesystem as a whole (everything the program can write, create or delete).
filesystem == <<dataDir, dataRootFiles, runDir, tmpConf>>

\* ------------------------------------------------------- filesystem values
Absent == [exists |-> FALSE, access |-> FALSE, main |-> FALSE, marker |-> FALSE, pid |-> FALSE]
Cluster == [exists |-> TRUE, access |-> TRUE, main |-> TRUE, marker |-> TRUE, pid |-> FALSE]

\* States the data directory of the source version can be found in.
SourceDirStates ==
    { Absent,
      [Cluster EXCEPT !.access = FALSE],
      [Cluster EXCEPT !.main = FALSE, !.marker = FALSE],
      [Cluster EXCEPT !.marker = FALSE],
      [Cluster EXCEPT !.pid = TRUE],
      Cluster }

\* States of the other versions' data directories (their content is never read).
OtherDirStates == { Absent, Cluster }

NoConf == [exists |-> FALSE, overrides |-> <<>>]
\* A temporary configuration left by an earlier run.
StaleConf(v) ==
    [exists |-> TRUE,
     overrides |-> << [port |-> BasePort, version |-> v, extra |-> <<>>] >>]

NoDesc == [version |-> 0]

\* def _dir_exists_and_accessible(directory)
_dir_exists_and_accessible(d) == d.exists /\ d.access

\* ------------------------------------------------------------------ errors
NoError == <<>>
PostgresUpgradeError(what) == <<"PostgresUpgradeError", what>>
CalledProcessError(what) == <<"CalledProcessError", what>>
FileNotFoundError(what) == <<"FileNotFoundError", what>>
AssertionError(what) == <<"AssertionError", what>>
FileExistsError(what) == <<"FileExistsError", what>>

\* ----------------------------------------------------- _PostgresVersion
\* _PostgresVersion._current_postgresql_config_path(): NoError when exactly one
\* decimal-named configuration set with a postgresql.conf is found.
_current_postgresql_config_path ==
    CASE etcConf = "notone" -> PostgresUpgradeError("More / less than one configuration set")
      [] etcConf = "nondecimal" -> PostgresUpgradeError("Invalid PostgreSQL version")
      [] etcConf = "noconf" -> PostgresUpgradeError("postgresql.conf does not exist")
      [] OTHER -> NoError

\* Mutant of PathChecks: only the data directory of the final target version
\* is required not to exist.
PathChecks_FinalTargetOnly(v, is_target, starting) ==
    LET d == dataDir[v] IN
    IF is_target
    THEN IF d.exists /\ v = target_version
         THEN PostgresUpgradeError("New data directory already exists")
         ELSE NoError
    ELSE IF ~starting THEN NoError
         ELSE IF ~_dir_exists_and_accessible(d)
              THEN PostgresUpgradeError("Old data directory does not exist or is inaccessible")
         ELSE IF ~d.main
              THEN PostgresUpgradeError("Old main directory does not exist or is inaccessible")
         ELSE IF ~d.marker
              THEN PostgresUpgradeError("PG_VERSION does not exist or is inaccessible")
         ELSE IF d.pid
              THEN PostgresUpgradeError("postmaster.pid exists; is the database running?")
         ELSE NoError

\* Mutant of PathChecks: every old descriptor is validated as the starting
\* version.
PathChecks_EveryOld(v, is_target, starting) ==
    LET d == dataDir[v] IN
    IF is_target
    THEN IF d.exists THEN PostgresUpgradeError("New data directory already exists")
         ELSE NoError
    ELSE IF ~_dir_exists_and_accessible(d)
              THEN PostgresUpgradeError("Old data directory does not exist or is inaccessible")
         ELSE IF ~d.main
              THEN PostgresUpgradeError("Old main directory does not exist or is inaccessible")
         ELSE IF ~d.marker
              THEN PostgresUpgradeError("PG_VERSION does not exist or is inaccessible")
         ELSE IF d.pid
              THEN PostgresUpgradeError("postmaster.pid exists; is the database running?")
         ELSE NoError

\* The checks of __init__ that come before its first write: the target's data
\* directory must not exist; the starting version's directories must be valid.
PathChecks(v, is_target, starting) ==
    LET d == dataDir[v] IN
    IF is_target
    THEN IF d.exists THEN PostgresUpgradeError("New data directory already exists")
         ELSE NoError
    ELSE IF ~starting THEN NoError
         ELSE IF ~_dir_exists_and_accessible(d)
              THEN PostgresUpgradeError("Old data directory does not exist or is inaccessible")
         ELSE IF ~d.main
              THEN PostgresUpgradeError("Old main directory does not exist or is inaccessible")
         ELSE IF ~d.marker
              THEN PostgresUpgradeError("PG_VERSION does not exist or is inaccessible")
         ELSE IF d.pid
              THEN PostgresUpgradeError("postmaster.pid exists; is the database running?")
         ELSE NoError

\* The checks of the binaries: bin_dir for every descriptor, the four tools for
\* an upgrade target.
BinChecks(v, is_target) ==
    IF binState[v] = "nodir"
    THEN PostgresUpgradeError("Binaries directory does not exist or is inaccessible")
    ELSE IF is_target /\ binState[v] = "notools"
    THEN PostgresUpgradeError("tool does not exist")
    ELSE NoError

\* Mutant of CleanedConf: a stale copy is left where it is.
CleanedConf_Skip(v) == tmpConf

\* Mutant of CleanedConf: the whole of /var/tmp/postgresql/conf is removed.
CleanedConf_All(v) == [u \in Versions |-> NoConf]

\* if os.path.exists(self.tmp_conf_dir): shutil.rmtree(self.tmp_conf_dir)
CleanedConf(v) == [tmpConf EXCEPT ![v] = NoConf]

\* shutil.copytree(current_postgresql_config_path, self.tmp_conf_dir): the
\* active configuration, which holds no override block, is copied; copytree
\* raises when its destination exists.
CopyError(conf, v) ==
    IF conf[v].exists THEN FileExistsError("shutil.copytree") ELSE NoError
CopiedConf(conf, v) == [conf EXCEPT ![v] = [exists |-> TRUE, overrides |-> <<>>]]

\* open(<tmp_conf_dir>/postgresql.conf, 'a').write(block)
AppendedConf(conf, v, block) == [conf EXCEPT ![v].overrides = Append(@, block)]

\* The block appended to <tmp_conf_dir>/postgresql.conf.
Overrides(v, port, extra_postgres_config) ==
    [port |-> port, version |-> v, extra |-> extra_postgres_config]

\* _PostgresVersion.__init__: the descriptor, the exception raised (or NoError)
\* and the run directories and temporary configurations it leaves behind.
_PostgresVersion(v, is_target, starting, port, extra_postgres_config) ==
    LET desc == [version |-> v, port |-> port, is_target |-> is_target,
                 data_dir |-> v, main_dir |-> v, bin_dir |-> v, tmp_conf_dir |-> v]
        e1 == PathChecks(v, is_target, starting)
        run1 == [runDir EXCEPT ![v] = TRUE]
        e2 == BinChecks(v, is_target)
        conf1 == CleanedConf(v)
        e3 == _current_postgresql_config_path
        e4 == CopyError(conf1, v)
        conf2 == AppendedConf(CopiedConf(conf1, v), v,
                              Overrides(v, port, extra_postgres_config))
    IN  IF e1 # NoError
        THEN [err |-> e1, desc |-> NoDesc, runDir |-> runDir, tmpConf |-> tmpConf]
        ELSE IF e2 # NoError
        THEN [err |-> e2, desc |-> NoDesc, runDir |-> run1, tmpConf |-> tmpConf]
        ELSE IF e3 # NoError
        THEN [err |-> e3, desc |-> NoDesc, runDir |-> run1, tmpConf |-> conf1]
        ELSE IF e4 # NoError
        THEN [err |-> e4, desc |-> NoDesc, runDir |-> run1, tmpConf |-> conf1]
        ELSE [err |-> NoError, desc |-> desc, runDir |-> run1, tmpConf |-> conf2]

\* ------------------------------------------------------------------- Init
\* Installations with at most one broken binaries directory.
BinStates ==
    { [v \in Versions |-> "ok"] } \cup
    { [v \in Versions |-> IF v = b THEN k ELSE "ok"] :
        b \in Versions, k \in {"nodir", "notools"} }

\* The run starts with its two arguments and the filesystem as it finds it:
\* the source version's data directory in any of SourceDirStates, the others
\* present or not, no run directory yet, and the temporary configurations
\* either all absent or all left behind by an earlier run.
Init ==
    /\ invocation = 1
    /\ source_version \in Versions
    /\ target_version \in Versions
    /\ pc = "preflight"
    /\ error = NoError
    /\ dataDir \in [Versions -> SourceDirStates]
    /\ \A v \in Versions : v # source_version => dataDir[v] \in OtherDirStates
    /\ binState \in BinStates
    /\ etcConf \in {"ok", "notone", "nondecimal", "noconf"}
    /\ dataRootFiles \in {{}} \cup {{f} : f \in CruftFiles}
    /\ runDir = [v \in Versions |-> FALSE]
    /\ tmpConf \in {[v \in Versions |-> NoConf], [v \in Versions |-> StaleConf(v)]}
    /\ maintenance_work_mem_statement = <<>>
    /\ version = source_version
    /\ current_port = BasePort
    /\ old_version = NoDesc
    /\ upgrade_pairs = <<>>
    /\ hop = 0
    /\ postgres_proc = "none"
    /\ polls = 0
    /\ log = <<>>

\* ---------------------------------------------------------------- helpers
\* An exception leaves postgres_upgrade: the run is over.
Raise(e) ==
    /\ pc' = "failed"
    /\ error' = e

Goto(label) ==
    /\ pc' = label
    /\ error' = error

\* One entry of the log: the command or operation, the version (or port) it is
\* about, its further arguments and its exit status.
Event(op, v, args, rc) == [op |-> op, v |-> v, args |-> args, rc |-> rc]

\* Mutant of check_call: subprocess.call, which returns the exit status
\* instead of raising on it.
check_call_Unchecked(op, v, args, rc, next) ==
    /\ log' = Append(log, Event(op, v, args, rc))
    /\ Goto(next)

\* subprocess.check_call / check_output: the command runs to its end, and a
\* nonzero exit status raises CalledProcessError.
check_call(op, v, args, rc, next) ==
    /\ log' = Append(log, Event(op, v, args, rc))
    /\ IF rc = 0 THEN Goto(next) ELSE Raise(CalledProcessError(op))

ExitCodes == {0, 1}

\* ------------------------------------------------------ postgres_upgrade
\* Mutant of NotNewer: equal versions are let through.
NotNewer_Strict(target, source) == target < source

\* if target_version <= source_version: raise
NotNewer(target, source) == target <= source

\* The three read-only checks that open postgres_upgrade.
Preflight ==
    /\ pc = "preflight"
    /\ \E root_ok \in BOOLEAN, user \in Users :
         IF ~root_ok
         THEN Raise(PostgresUpgradeError("POSTGRES_DATA_DIR does not exist or is inaccessible"))
         ELSE IF user # POSTGRES_USER
         THEN Raise(PostgresUpgradeError("This script is to be run as postgres"))
         ELSE IF NotNewer(target_version, source_version)
         THEN Raise(PostgresUpgradeError("Target version is not newer than source version"))
         ELSE Goto("update_memory_config")
    /\ UNCHANGED <<invocation, source_version, target_version, dataDir, binState, etcConf,
                   dataRootFiles, runDir, tmpConf, maintenance_work_mem_statement,
                   version, current_port, old_version, upgrade_pairs, hop,
                   postgres_proc, polls, log>>

\* subprocess.check_call(['/opt/mediacloud/bin/update_memory_config.sh'])
UpdateMemoryConfig ==
    /\ pc = "update_memory_config"
    /\ \E rc \in ExitCodes : check_call("update_memory_config.sh", 0, <<>>, rc, "remove_cruft")
    /\ UNCHANGED <<invocation, source_version, target_version, dataDir, binState, etcConf,
                   dataRootFiles, runDir, tmpConf, maintenance_work_mem_statement,
                   version, current_port, old_version, upgrade_pairs, hop,
                   postgres_proc, polls>>

\* The loop over the leftover patterns: for every file a pattern matches,
\* os.unlink(pattern) is called with the pattern itself, a path relative to
\* the working directory; it removes a file only when the pattern is a plain
\* name and the working directory is POSTGRES_DATA_DIR.
RemoveCruft ==
    /\ pc = "remove_cruft"
    /\ \E cwd_is_data_dir \in BOOLEAN :
         LET globbed == Matches(patterns[1], dataRootFiles) \cup Matches(patterns[2], dataRootFiles)
             named == Matches(patterns[3], dataRootFiles)
         IN  IF globbed # {}
             THEN /\ Raise(FileNotFoundError("os.unlink(pattern)"))
                  /\ UNCHANGED <<dataRootFiles, log>>
             ELSE IF named # {} /\ ~cwd_is_data_dir
             THEN /\ Raise(FileNotFoundError("os.unlink(pattern)"))
                  /\ UNCHANGED <<dataRootFiles, log>>
             ELSE /\ Goto("container_memory_limit")
                  /\ dataRootFiles' = dataRootFiles \ named
                  /\ log' = IF named # {} THEN Append(log, Event("unlink", 0, <<patterns[3]>>, 0)) ELSE log
    /\ UNCHANGED <<invocation, source_version, target_version, dataDir, binState, etcConf,
                   runDir, tmpConf, maintenance_work_mem_statement,
                   version, current_port, old_version, upgrade_pairs, hop,
                   postgres_proc, polls>>

\* ram_size = int(check_output(['/container_memory_limit.sh'])); the
\* maintenance_work_mem statement is int(ram_size / 10) MB.
ContainerMemoryLimit ==
    /\ pc = "container_memory_limit"
    /\ \E rc \in ExitCodes, ram_size \in RamSizes :
         /\ log' = Append(log, Event("container_memory_limit.sh", 0, <<>>, rc))
         /\ IF rc # 0
            THEN /\ Raise(CalledProcessError("container_memory_limit.sh"))
                 /\ UNCHANGED maintenance_work_mem_statement
            ELSE IF ram_size = 0
            THEN /\ Raise(AssertionError("RAM size can't be zero."))
                 /\ UNCHANGED maintenance_work_mem_statement
            ELSE /\ Goto("sequence_old")
                 /\ maintenance_work_mem_statement' = << ram_size \div 10 >>
    /\ UNCHANGED <<invocation, source_version, target_version, dataDir, binState, etcConf,
                   dataRootFiles, runDir, tmpConf,
                   version, current_port, old_version, upgrade_pairs, hop,
                   postgres_proc, polls>>

\* Mutant of NextPort: the counter advances by one per hop.
NextPort_ByOne(port) == port + 1

\* current_port = current_port + 2
NextPort(port) == port + 2

\* The sequencing loop, old side: old_version=_PostgresVersion(version, False,
\* version == source_version, current_port, '').
SequenceOld ==
    /\ pc = "sequence_old"
    /\ LET r == _PostgresVersion(version, FALSE, version = source_version,
                                 current_port, <<>>)
       IN  /\ runDir' = r.runDir
           /\ tmpConf' = r.tmpConf
           /\ IF r.err # NoError
              THEN Raise(r.err) /\ UNCHANGED old_version
              ELSE Goto("sequence_new") /\ old_version' = r.desc
    /\ UNCHANGED <<invocation, source_version, target_version, dataDir, binState, etcConf,
                   dataRootFiles, maintenance_work_mem_statement,
                   version, current_port, upgrade_pairs, hop,
                   postgres_proc, polls, log>>

\* The sequencing loop, new side: new_version=_PostgresVersion(version + 1, True,
\* False, current_port + 1, maintenance_work_mem_statement); then the pair is
\* appended, current_port advances by two and the loop goes on to the next
\* version of range(source_version, target_version).
SequenceNew ==
    /\ pc = "sequence_new"
    /\ LET r == _PostgresVersion(version + 1, TRUE, FALSE, current_port + 1,
                                 maintenance_work_mem_statement)
       IN  /\ runDir' = r.runDir
           /\ tmpConf' = r.tmpConf
           /\ IF r.err # NoError
              THEN /\ Raise(r.err)
                   /\ UNCHANGED <<upgrade_pairs, current_port, version, old_version, hop>>
              ELSE /\ upgrade_pairs' = Append(upgrade_pairs,
                          [old_version |-> old_version, new_version |-> r.desc])
                   /\ current_port' = NextPort(current_port)
                   /\ version' = version + 1
                   /\ old_version' = NoDesc
                   /\ IF version + 1 < target_version
                      THEN Goto("sequence_old") /\ UNCHANGED hop
                      ELSE Goto("initdb") /\ hop' = 1
    /\ UNCHANGED <<invocation, source_version, target_version, dataDir, binState, etcConf,
                   dataRootFiles, maintenance_work_mem_statement,
                   postgres_proc, polls, log>>

\* The pair the upgrade loop is at.
pair == upgrade_pairs[hop]

\* upgrade_command, without the constant flags (--jobs, --link, --verbose)
upgrade_command ==
    [old_bindir |-> pair.old_version.bin_dir,
     new_bindir |-> pair.new_version.bin_dir,
     old_datadir |-> pair.old_version.main_dir,
     new_datadir |-> pair.new_version.main_dir,
     old_port |-> pair.old_version.port,
     new_port |-> pair.new_version.port,
     old_options |-> pair.old_version.tmp_conf_dir,
     new_options |-> pair.new_version.tmp_conf_dir]

\* Files the upgrade tool leaves in its working directory, POSTGRES_DATA_DIR.
UpgradeLogs == {"pg_upgrade_server.log"}
UpgradeScripts == {"analyze_new_cluster.sh", "delete_old_cluster.sh"}
\* The byproducts the loop removes after a hop.
CleanedUp == {"analyze_new_cluster.sh", "delete_old_cluster.sh", "pg_upgrade_internal.log",
              "pg_upgrade_server.log", "pg_upgrade_utility.log"}

\* pathlib.Path(pair.new_version.main_dir).mkdir(parents=True, exist_ok=True),
\* then check_call of initdb on it; a successful initdb writes PG_VERSION.
Initdb ==
    /\ pc = "initdb"
    /\ \E rc \in ExitCodes :
         /\ dataDir' = [dataDir EXCEPT ![pair.new_version.main_dir] =
                          [exists |-> TRUE, access |-> TRUE, main |-> TRUE,
                           marker |-> (@.marker \/ rc = 0), pid |-> @.pid]]
         /\ check_call("initdb", pair.new_version.main_dir, <<>>, rc, "check")
    /\ UNCHANGED <<invocation, source_version, target_version, binState, etcConf,
                   dataRootFiles, runDir, tmpConf, maintenance_work_mem_statement,
                   version, current_port, old_version, upgrade_pairs, hop,
                   postgres_proc, polls>>

\* Mutant of UpgradeCheck: the exit status of the check is not looked at.
UpgradeCheck_Unchecked ==
    /\ pc = "check"
    /\ \E rc \in ExitCodes :
         /\ log' = Append(log, Event("pg_upgrade", pair.new_version.version,
                                     <<upgrade_command, "--check">>, rc))
         /\ Goto("upgrade")
    /\ dataRootFiles' = dataRootFiles \cup UpgradeLogs
    /\ UNCHANGED <<invocation, source_version, target_version, dataDir, binState, etcConf,
                   runDir, tmpConf, maintenance_work_mem_statement,
                   version, current_port, old_version, upgrade_pairs, hop,
                   postgres_proc, polls>>

\* check_call(upgrade_command + ['--check'], cwd=POSTGRES_DATA_DIR)
UpgradeCheck ==
    /\ pc = "check"
    /\ \E rc \in ExitCodes :
         check_call("pg_upgrade", pair.new_version.version,
                    <<upgrade_command, "--check">>, rc, "upgrade")
    /\ dataRootFiles' = dataRootFiles \cup UpgradeLogs
    /\ UNCHANGED <<invocation, source_version, target_version, dataDir, binState, etcConf,
                   runDir, tmpConf, maintenance_work_mem_statement,
                   version, current_port, old_version, upgrade_pairs, hop,
                   postgres_proc, polls>>

\* Mutant of Upgrade: the old data directory is purged whatever the exit
\* status of the upgrade.
Upgrade_Unchecked ==
    /\ pc = "upgrade"
    /\ \E rc \in ExitCodes :
         /\ log' = Append(log, Event("pg_upgrade", pair.new_version.version,
                                     <<upgrade_command>>, rc))
         /\ Goto("purge")
         /\ dataRootFiles' = dataRootFiles \cup UpgradeLogs
                               \cup (IF rc = 0 THEN UpgradeScripts ELSE {})
    /\ UNCHANGED <<invocation, source_version, target_version, dataDir, binState, etcConf,
                   runDir, tmpConf, maintenance_work_mem_statement,
                   version, current_port, old_version, upgrade_pairs, hop,
                   postgres_proc, polls>>

\* check_call(upgrade_command, cwd=POSTGRES_DATA_DIR)
Upgrade ==
    /\ pc = "upgrade"
    /\ \E rc \in ExitCodes :
         /\ check_call("pg_upgrade", pair.new_version.version,
                       <<upgrade_command>>, rc, "purge")
         /\ dataRootFiles' = dataRootFiles \cup UpgradeLogs
                               \cup (IF rc = 0 THEN UpgradeScripts ELSE {})
    /\ UNCHANGED <<invocation, source_version, target_version, dataDir, binState, etcConf,
                   runDir, tmpConf, maintenance_work_mem_statement,
                   version, current_port, old_version, upgrade_pairs, hop,
                   postgres_proc, polls>>

\* Mutant of PurgedDir: the new version's data directory is removed.
PurgedDir_New == pair.new_version.data_dir

\* The directory a hop removes: pair.old_version.data_dir
PurgedDir == pair.old_version.data_dir

\* shutil.rmtree(pair.old_version.data_dir)
Purge ==
    /\ pc = "purge"
    /\ IF dataDir[PurgedDir].exists
       THEN /\ dataDir' = [dataDir EXCEPT ![PurgedDir] = Absent]
            /\ log' = Append(log, Event("rmtree", PurgedDir, <<>>, 0))
            /\ Goto("cleanup")
       ELSE /\ Raise(FileNotFoundError("shutil.rmtree(data_dir)"))
            /\ UNCHANGED <<dataDir, log>>
    /\ UNCHANGED <<invocation, source_version, target_version, binState, etcConf,
                   dataRootFiles, runDir, tmpConf, maintenance_work_mem_statement,
                   version, current_port, old_version, upgrade_pairs, hop,
                   postgres_proc, polls>>

\* Mutant of Cleanup: the loop does not move on to the next pair.
Cleanup_NoAdvance ==
    /\ pc = "cleanup"
    /\ dataRootFiles' = dataRootFiles \ CleanedUp
    /\ IF hop < Len(upgrade_pairs)
       THEN Goto("initdb") /\ UNCHANGED hop
       ELSE Goto("start_postgres") /\ UNCHANGED hop
    /\ UNCHANGED <<invocation, source_version, target_version, dataDir, binState, etcConf,
                   runDir, tmpConf, maintenance_work_mem_statement,
                   version, current_port, old_version, upgrade_pairs,
                   postgres_proc, polls, log>>

\* The byproduct scripts and logs are unlinked; the loop goes on to the next
\* pair, or leaves for the final server after the last one.
Cleanup ==
    /\ pc = "cleanup"
    /\ dataRootFiles' = dataRootFiles \ CleanedUp
    /\ IF hop < Len(upgrade_pairs)
       THEN Goto("initdb") /\ hop' = hop + 1
       ELSE Goto("start_postgres") /\ UNCHANGED hop
    /\ UNCHANGED <<invocation, source_version, target_version, dataDir, binState, etcConf,
                   runDir, tmpConf, maintenance_work_mem_statement,
                   version, current_port, old_version, upgrade_pairs,
                   postgres_proc, polls, log>>

\* current_version = upgrade_pairs[-1].new_version
current_version == upgrade_pairs[Len(upgrade_pairs)].new_version

\* postgres_proc = subprocess.Popen([current_version.postgres, ...])
StartPostgres ==
    /\ pc = "start_postgres"
    /\ postgres_proc' = "started"
    /\ log' = Append(log, Event("postgres", current_version.main_dir,
                              <<current_version.tmp_conf_dir>>, 0))
    /\ Goto("wait")
    /\ UNCHANGED <<invocation, source_version, target_version, dataDir, binState, etcConf,
                   dataRootFiles, runDir, tmpConf, maintenance_work_mem_statement,
                   version, current_port, old_version, upgrade_pairs, hop, polls>>

\* The started server opens its port.
ServerListens ==
    /\ postgres_proc = "started"
    /\ postgres_proc' = "listening"
    /\ UNCHANGED <<invocation, source_version, target_version, pc, error, dataDir, binState,
                   etcConf, dataRootFiles, runDir, tmpConf,
                   maintenance_work_mem_statement, version, current_port,
                   old_version, upgrade_pairs, hop, polls, log>>

\* The started server exits before it ever listens.
ServerExits ==
    /\ postgres_proc = "started"
    /\ postgres_proc' = "dead"
    /\ UNCHANGED <<invocation, source_version, target_version, pc, error, dataDir, binState,
                   etcConf, dataRootFiles, runDir, tmpConf,
                   maintenance_work_mem_statement, version, current_port,
                   old_version, upgrade_pairs, hop, polls, log>>

\* Mutant of _tcp_port_is_open: every attempt is taken for a success.
_tcp_port_is_open_Always(port) == TRUE

\* def _tcp_port_is_open(port): connect_ex returns 0 when something listens.
_tcp_port_is_open(port) ==
    /\ postgres_proc = "listening"
    /\ port = current_version.port

\* Mutant of WaitForPostgres: the loop gives up after MaxPolls failed attempts
\* and reports a failure.
WaitForPostgres_GivesUp ==
    /\ pc = "wait"
    /\ ~_tcp_port_is_open(current_version.port)
    /\ IF polls < MaxPolls
       THEN /\ polls' = polls + 1
            /\ UNCHANGED <<pc, error>>
       ELSE /\ Raise(PostgresUpgradeError("PostgreSQL did not come up"))
            /\ UNCHANGED polls
    /\ UNCHANGED <<invocation, source_version, target_version, dataDir, binState,
                   etcConf, dataRootFiles, runDir, tmpConf,
                   maintenance_work_mem_statement, version, current_port,
                   old_version, upgrade_pairs, hop, postgres_proc, log>>

\* while not _tcp_port_is_open(port=current_version.port): the attempt fails,
\* the loop sleeps a second and tries again.
WaitForPostgres ==
    /\ pc = "wait"
    /\ ~_tcp_port_is_open(current_version.port)
    /\ polls' = IF polls < MaxPolls THEN polls + 1 ELSE polls
    /\ UNCHANGED <<invocation, source_version, target_version, pc, error, dataDir, binState,
                   etcConf, dataRootFiles, runDir, tmpConf,
                   maintenance_work_mem_statement, version, current_port,
                   old_version, upgrade_pairs, hop, postgres_proc, log>>

\* The attempt succeeds and the loop is left.
PostgresIsUp ==
    /\ pc = "wait"
    /\ _tcp_port_is_open(current_version.port)
    /\ log' = Append(log, Event("connect", current_version.port, <<>>, 0))
    /\ Goto("vacuumdb")
    /\ UNCHANGED <<invocation, source_version, target_version, dataDir, binState, etcConf,
                   dataRootFiles, runDir, tmpConf, maintenance_work_mem_statement,
                   version, current_port, old_version, upgrade_pairs, hop,
                   postgres_proc, polls>>

\* check_call([current_version.vacuumdb, '--port', ..., '--all', ...])
Vacuumdb ==
    /\ pc = "vacuumdb"
    /\ \E rc \in ExitCodes :
         check_call("vacuumdb", current_version.port, <<>>, rc, "terminate")
    /\ UNCHANGED <<invocation, source_version, target_version, dataDir, binState, etcConf,
                   dataRootFiles, runDir, tmpConf, maintenance_work_mem_statement,
                   version, current_port, old_version, upgrade_pairs, hop,
                   postgres_proc, polls>>

\* postgres_proc.send_signal(signal.SIGTERM); postgres_proc.wait()
Terminate ==
    /\ pc = "terminate"
    /\ postgres_proc' = "terminated"
    /\ log' = Append(log, Event("SIGTERM", current_version.version, <<>>, 0))
    /\ Goto("done")
    /\ UNCHANGED <<invocation, source_version, target_version, dataDir, binState, etcConf,
                   dataRootFiles, runDir, tmpConf, maintenance_work_mem_statement,
                   version, current_port, old_version, upgrade_pairs, hop, polls>>

Next ==
    \/ Preflight
    \/ UpdateMemoryConfig
    \/ RemoveCruft
    \/ ContainerMemoryLimit
    \/ SequenceOld
    \/ SequenceNew
    \/ Initdb
    \/ UpgradeCheck
    \/ Upgrade
    \/ Purge
    \/ Cleanup
    \/ StartPostgres
    \/ ServerListens
    \/ ServerExits
    \/ WaitForPostgres
    \/ PostgresIsUp
    \/ Vacuumdb
    \/ Terminate

Spec == Init /\ [][Next]_vars

\* ================================================================ claims
\* Steps of a hop that the log records.
HopOps == {"initdb", "pg_upgrade", "rmtree"}
IsInitdb(e) == e.op = "initdb"
IsCheck(e) == e.op = "pg_upgrade" /\ Len(e.args) = 2
IsRealUpgrade(e) == e.op = "pg_upgrade" /\ Len(e.args) = 1
IsPurge(e) == e.op = "rmtree"
\* The new version of the hop an entry of the log belongs to.
HopOf(e) == IF IsPurge(e) THEN e.v + 1 ELSE e.v
\* No step of any hop has run yet.
NoHopStepYet == \A i \in DOMAIN log : log[i].op \notin HopOps

\* C1: a data directory stops existing only in a step taken after the real
\* upgrade (no --check) whose --old-datadir it is has exited with status 0.
C1_PurgeOnlyAfterUpgrade ==
    [][\A v \in Versions :
         (dataDir[v].exists /\ ~dataDir'[v].exists) =>
            \E i \in DOMAIN log :
               /\ IsRealUpgrade(log[i])
               /\ log[i].rc = 0
               /\ log[i].args[1].old_datadir = v]_vars

\* A hop has just purged its old data directory.
C1_Witness ==
    /\ pc = "cleanup"
    /\ ~dataDir[pair.old_version.data_dir].exists
    /\ IsPurge(log[Len(log)])

\* C2: every real upgrade in the log comes after a check-only run of the same
\* command that exited 0, and every check-only run comes after an initdb of
\* the command's --new-datadir that exited 0.
C2_StepsGateEachOther ==
    \A i \in DOMAIN log :
       /\ IsRealUpgrade(log[i]) =>
             \E j \in 1..(i - 1) :
                /\ IsCheck(log[j])
                /\ log[j].rc = 0
                /\ log[j].args[1] = log[i].args[1]
       /\ IsCheck(log[i]) =>
             \E j \in 1..(i - 1) :
                /\ IsInitdb(log[j])
                /\ log[j].rc = 0
                /\ log[j].v = log[i].args[1].new_datadir

\* The real upgrade of the second hop of a chain has run.
C2_Witness ==
    /\ hop = 2
    /\ pc \in {"purge", "failed"}
    /\ IsRealUpgrade(log[Len(log)])

\* C3: an initdb, check or upgrade that exits nonzero is the last thing the run
\* does: the run has failed, that hop's old data directory still exists, the
\* log holds no step of a later hop, no server was started and no vacuumdb
\* ran, nothing more can happen, and the old data directories of the hops
\* before it are still gone.
C3_FailedHopAbortsRun ==
    \A i \in DOMAIN log :
       (log[i].op \in {"initdb", "pg_upgrade"} /\ log[i].rc # 0) =>
          LET new == HopOf(log[i]) IN
          /\ i = Len(log)
          /\ pc = "failed"
          /\ error[1] = "CalledProcessError"
          /\ dataDir[new - 1].exists
          /\ \A j \in DOMAIN log :
                /\ log[j].op \in HopOps => HopOf(log[j]) <= new
                /\ log[j].op \notin {"postgres", "connect", "vacuumdb", "SIGTERM"}
          /\ postgres_proc = "none"
          /\ \A u \in source_version..(new - 2) : ~dataDir[u].exists
          /\ ~ENABLED Next

\* The second hop of a chain has failed after the first purged the source.
C3_Witness ==
    /\ pc = "failed"
    /\ hop = 2
    /\ log[Len(log)].op \in {"initdb", "pg_upgrade"}
    /\ log[Len(log)].rc # 0
    /\ ~dataDir[source_version].exists

\* The positions of postgres_upgrade up to the end of the sequencing loop.
BeforeHops == {"preflight", "update_memory_config", "remove_cruft",
               "container_memory_limit", "sequence_old", "sequence_new"}
\* The chain is complete: the sequencing loop has ended without an exception.
ChainBuilt == hop >= 1
\* The sequencing loop was left by an exception of a descriptor.
SequencingFailed ==
    /\ pc = "failed"
    /\ hop = 0
    /\ maintenance_work_mem_statement # <<>>
    /\ error[1] = "PostgresUpgradeError"

\* The ports of the chain's descriptors in chain order: old, new, old, new, ...
ChainPorts ==
    [i \in 1..(2 * Len(upgrade_pairs)) |->
        IF i % 2 = 1 THEN upgrade_pairs[(i + 1) \div 2].old_version.port
                     ELSE upgrade_pairs[i \div 2].new_version.port]

\* C4: a complete chain has target - source pairs, its i-th pair (from 0) goes
\* from source + i to source + i + 1, and the ports of its descriptors are
\* strictly increasing in chain order, so pairwise distinct.
C4_ChainShape ==
    ChainBuilt =>
       /\ source_version < target_version
       /\ Len(upgrade_pairs) = target_version - source_version
       /\ \A i \in DOMAIN upgrade_pairs :
             /\ upgrade_pairs[i].old_version.version = source_version + (i - 1)
             /\ upgrade_pairs[i].new_version.version
                   = upgrade_pairs[i].old_version.version + 1
       /\ \A i, j \in DOMAIN ChainPorts : i < j => ChainPorts[i] < ChainPorts[j]

\* A chain of two hops has been built.
C4_Witness ==
    /\ pc = "initdb"
    /\ hop = 1
    /\ Len(upgrade_pairs) = 2

\* C5: with target <= source the only step the run takes is a rejection with a
\* PostgresUpgradeError that leaves the filesystem as it was and the log of
\* external commands empty.
C5_NotNewerRejectedUntouched ==
    [][target_version <= source_version =>
         /\ pc' = "failed"
         /\ error'[1] = "PostgresUpgradeError"
         /\ UNCHANGED filesystem
         /\ log' = <<>>]_vars

\* A request with target = source has been rejected for that reason.
C5_Witness ==
    /\ pc = "failed"
    /\ target_version = source_version
    /\ error = PostgresUpgradeError("Target version is not newer than source version")
    /\ log = <<>>

\* C6: while no hop step has run, an existing data directory of a version in
\* source+1 .. target keeps the run before the hops: the descriptor pair that
\* has this version as its new side is never built.
C6_ExistingTargetDirRejected ==
    \A v \in (source_version + 1)..target_version :
       (dataDir[v].exists /\ NoHopStepYet) =>
          /\ pc \in BeforeHops \cup {"failed"}
          /\ ~ChainBuilt
          /\ Len(upgrade_pairs) < v - source_version

\* Chain building was rejected for the data directory of an intermediate
\* version, after the first pair had been built.
C6_Witness ==
    /\ SequencingFailed
    /\ error = PostgresUpgradeError("New data directory already exists")
    /\ Len(upgrade_pairs) = 1
    /\ version + 1 = target_version
    /\ dataDir[target_version].exists

\* The exceptions of the checks of the starting version.
SourcePathErrors ==
    { PostgresUpgradeError("Old data directory does not exist or is inaccessible"),
      PostgresUpgradeError("Old main directory does not exist or is inaccessible"),
      PostgresUpgradeError("PG_VERSION does not exist or is inaccessible"),
      PostgresUpgradeError("postmaster.pid exists; is the database running?") }

\* C7: while no hop step has run, a source data directory that is missing or
\* inaccessible, has no main directory, no PG_VERSION or has a postmaster.pid
\* keeps the run from building even its first descriptor; and these checks
\* fail only for the descriptor of the source version, never for the old
\* descriptor of a later hop.
C7_SourceValidatedOnlyAtStart ==
    LET d == dataDir[source_version] IN
    /\ (NoHopStepYet /\ ~(d.exists /\ d.access /\ d.main /\ d.marker /\ ~d.pid)) =>
          /\ pc \in BeforeHops \cup {"failed"}
          /\ upgrade_pairs = <<>>
          /\ old_version = NoDesc
    /\ (pc = "failed" /\ error \in SourcePathErrors) =>
          /\ version = source_version
          /\ upgrade_pairs = <<>>
    /\ (pc = "sequence_new" /\ version > source_version) =>
          /\ old_version.version = version
          /\ ~dataDir[old_version.data_dir].exists

\* A request over two hops was rejected for the live-server marker of its
\* source version.
C7_Witness ==
    /\ SequencingFailed
    /\ error = PostgresUpgradeError("postmaster.pid exists; is the database running?")
    /\ target_version = source_version + 2
    /\ dataDir[source_version].pid

\* The version whose descriptor the sequencing loop constructs next.
Constructed == IF pc = "sequence_old" THEN version ELSE version + 1

\* What a step of chain building may change.
SequencingStepFrame ==
    pc \in {"sequence_old", "sequence_new"} =>
       /\ UNCHANGED <<dataDir, dataRootFiles, log>>
       /\ \A v \in Versions :
             /\ runDir[v] => runDir'[v]
             /\ (runDir'[v] # runDir[v] \/ tmpConf'[v] # tmpConf[v]) => v = Constructed

\* C8 as stated: when chain building has failed on a descriptor's validation,
\* nothing outside the temporary configuration directories was created (no run
\* directory exists) and no hop step has run.
C8_OnlyConfWrites ==
    SequencingFailed =>
       /\ \A v \in Versions : ~runDir[v]
       /\ NoHopStepYet

\* C8 as amended: a step of chain building leaves the data directories, the
\* files of the data root and the log as they were, removes no run directory,
\* and changes the run directory and the temporary configuration of the
\* version it constructs only; when chain building has failed no hop step has
\* run.
C8_ConfAndRunDirWritesOnly ==
    /\ [][SequencingStepFrame]_vars
    /\ [](SequencingFailed => NoHopStepYet /\ postgres_proc = "none")

\* Chain building failed on the binaries of the second hop's target, after it
\* had created run directories.
C8_Witness ==
    /\ SequencingFailed
    /\ Len(upgrade_pairs) = 1
    /\ error = PostgresUpgradeError("tool does not exist")
    /\ runDir[target_version]

\* The steps of the hops in the log, in order.
AllHopSteps == SelectSeq(log, LAMBDA e : e.op \in HopOps)

\* C9: when the run is done, no data directory of source .. target-1 exists,
\* the one of target exists, the log holds for each hop in increasing order
\* exactly one initdb, one check, one upgrade and one purge, and vacuumdb ran
\* after a successful connection to the port of the final descriptor.
C9_SuccessfulRun ==
    pc = "done" =>
       LET n == target_version - source_version IN
       /\ \A v \in source_version..(target_version - 1) : ~dataDir[v].exists
       /\ dataDir[target_version].exists
       /\ Len(AllHopSteps) = 4 * n
       /\ \A k \in 1..n :
             /\ IsInitdb(AllHopSteps[4 * k - 3])
             /\ IsCheck(AllHopSteps[4 * k - 2])
             /\ IsRealUpgrade(AllHopSteps[4 * k - 1])
             /\ IsPurge(AllHopSteps[4 * k])
             /\ \A m \in (4 * k - 3)..(4 * k) :
                   /\ HopOf(AllHopSteps[m]) = source_version + k
                   /\ AllHopSteps[m].rc = 0
       /\ \E i, j \in DOMAIN log :
             /\ i < j
             /\ log[i].op = "connect"
             /\ log[i].v = upgrade_pairs[n].new_version.port
             /\ log[j].op = "vacuumdb"
       /\ \A j \in DOMAIN log :
             log[j].op = "vacuumdb" =>
                \E i \in 1..(j - 1) : log[i].op = "connect"

\* A run over two hops is done.
C9_Witness ==
    /\ pc = "done"
    /\ target_version = source_version + 2

\* C10 as stated: when the run has ended after the server was started, the
\* server process was sent SIGTERM and has exited.
C10_ServerTerminatedWhenFinalizeEnds ==
    (pc \in {"done", "failed"} /\ postgres_proc # "none") =>
       /\ postgres_proc = "terminated"
       /\ \E i \in DOMAIN log : log[i].op = "SIGTERM"

\* The descriptors of the chain in the order they were constructed.
ChainDescriptors ==
    [i \in 1..(2 * Len(upgrade_pairs)) |->
        IF i % 2 = 1 THEN upgrade_pairs[(i + 1) \div 2].old_version
                     ELSE upgrade_pairs[i \div 2].new_version]

\* C11 as stated: no two descriptors of the chain have the same port, the same
\* data directory, the same main directory or the same temporary
\* configuration directory.
C11_NoSharedResources ==
    \A i, j \in DOMAIN ChainDescriptors :
       i < j =>
          /\ ChainDescriptors[i].port # ChainDescriptors[j].port
          /\ ChainDescriptors[i].data_dir # ChainDescriptors[j].data_dir
          /\ ChainDescriptors[i].main_dir # ChainDescriptors[j].main_dir
          /\ ChainDescriptors[i].tmp_conf_dir # ChainDescriptors[j].tmp_conf_dir

\* What the constructor of the descriptor under construction is called with.
ConstructedPort == IF pc = "sequence_old" THEN current_port ELSE current_port + 1
ConstructedExtra ==
    IF pc = "sequence_old" THEN <<>> ELSE maintenance_work_mem_statement

\* A descriptor is constructed without an exception: its temporary
\* configuration then holds one override block, with the port, the version
\* and the extra directive the constructor was called with.
GenerationWritesOneBlock ==
    (pc \in {"sequence_old", "sequence_new"} /\ pc' # "failed") =>
       /\ tmpConf'[Constructed].exists
       /\ tmpConf'[Constructed].overrides =
             << [port |-> ConstructedPort, version |-> Constructed,
                 extra |-> ConstructedExtra] >>

\* C12: every temporary configuration that exists holds exactly one override
\* block; a stale copy never makes a generation fail; and after each
\* generation, repeated or not, the block is the one of that generation, with
\* the caller's extra directive.
C12_OneOverrideBlock ==
    /\ [](\A v \in Versions : tmpConf[v].exists => Len(tmpConf[v].overrides) = 1)
    /\ [](pc = "failed" => error[1] # "FileExistsError")
    /\ [][GenerationWritesOneBlock]_vars

\* The configuration of the intermediate version of a chain of two hops has
\* been generated twice, over a stale copy of an earlier run.
C12_Witness ==
    /\ pc = "sequence_new"
    /\ version = source_version + 1
    /\ tmpConf[source_version + 2] = StaleConf(source_version + 2)
    /\ tmpConf[version].overrides =
          << [port |-> current_port, version |-> version, extra |-> <<>>] >>

\* The polling loop is left: the server is listening, the successful attempt
\* is the latest entry of the log and the run goes on to vacuumdb.
WaitLeftOnlyOnConnect ==
    (pc = "wait" /\ pc' # "wait") =>
       /\ postgres_proc = "listening"
       /\ pc' = "vacuumdb"
       /\ log' = Append(log, Event("connect", current_version.port, <<>>, 0))

\* C13: the readiness wait is left only by a step in which the connection to
\* the final descriptor's port succeeds (so never when none does); while the
\* run waits, no vacuumdb has run and no SIGTERM was sent, and each of them
\* comes after a successful connection.
C13_ReturnsOnlyAfterConnect ==
    /\ [][WaitLeftOnlyOnConnect]_vars
    /\ [](pc = "wait" =>
            \A i \in DOMAIN log : log[i].op \notin {"connect", "vacuumdb", "SIGTERM"})
    /\ [](\A j \in DOMAIN log :
            log[j].op \in {"vacuumdb", "SIGTERM"} =>
               \E i \in 1..(j - 1) : log[i].op = "connect")

\* The wait has returned after failed attempts and a successful one.
C13_Witness ==
    /\ pc = "vacuumdb"
    /\ polls = MaxPolls
    /\ log[Len(log)].op = "connect"

\* ------------------------------------------------------ a second invocation
\* main() is run again with the same arguments after the first run failed or
\* was interrupted inside a hop, that is, after the hop's main directory was
\* created and before the final server was started. The filesystem is as the
\* first run left it; the log starts anew.
Reinvoke ==
    /\ invocation = 1
    /\ pc \in {"initdb", "check", "upgrade", "purge", "cleanup", "failed"}
    /\ ~NoHopStepYet
    /\ postgres_proc = "none"
    /\ invocation' = 2
    /\ pc' = "preflight"
    /\ error' = NoError
    /\ maintenance_work_mem_statement' = <<>>
    /\ version' = source_version
    /\ current_port' = BasePort
    /\ old_version' = NoDesc
    /\ upgrade_pairs' = <<>>
    /\ hop' = 0
    /\ polls' = 0
    /\ log' = <<>>
    /\ UNCHANGED <<source_version, target_version, dataDir, binState, etcConf,
                   dataRootFiles, runDir, tmpConf, postgres_proc>>

NextRerun ==
    \/ Next
    \/ Reinvoke

SpecRerun == Init /\ [][NextRerun]_vars

\* The exceptions that come from the environment of a run, not from what an
\* earlier run left behind: the preflight checks and the two scripts.
EnvironmentErrors ==
    { PostgresUpgradeError("POSTGRES_DATA_DIR does not exist or is inaccessible"),
      PostgresUpgradeError("This script is to be run as postgres"),
      CalledProcessError("update_memory_config.sh"),
      CalledProcessError("container_memory_limit.sh"),
      AssertionError("RAM size can't be zero.") }

\* C14 as stated: the second invocation runs no hop step and deletes no data
\* directory, and when it ends in an environment that lets it through, it was
\* refused by a descriptor's check in the sequencing loop.
C14_RefusedAtConstruction ==
    /\ [](invocation = 2 =>
            /\ NoHopStepYet
            /\ pc \in BeforeHops \cup {"failed"}
            /\ (pc = "failed" /\ error \notin EnvironmentErrors) => SequencingFailed)
    /\ [][invocation = 2 => UNCHANGED dataDir]_vars

\* The exceptions of _current_postgresql_config_path.
ConfigErrors ==
    { PostgresUpgradeError("More / less than one configuration set"),
      PostgresUpgradeError("Invalid PostgreSQL version"),
      PostgresUpgradeError("postgresql.conf does not exist") }

\* A constructor fails on the active configuration: a temporary configuration
\* directory of its version that existed before still exists.
FailedGenerationKeepsConf ==
    (pc \in {"sequence_old", "sequence_new"} /\ pc' = "failed" /\ error' \in ConfigErrors) =>
       (tmpConf[Constructed].exists => tmpConf'[Constructed].exists)

\* C15 as stated: when configuration generation fails because the active
\* configuration is missing or ambiguous, an existing temporary configuration
\* directory of that version has not been deleted.
C15_CheckBeforeRemoval == [][FailedGenerationKeepsConf]_vars

\* The kind of a hop step: initdb, check, upgrade or purge.
StepKind(e) == <<e.op, Len(e.args)>>

\* C16: a hop step runs only when the whole chain is built; the hop steps in
\* the log are in hop order, no step of a hop occurs twice, an initdb that is
\* not the first hop step directly follows the purge of the hop before it, and
\* when a later hop is about to start the byproducts of the hop before it are
\* gone from the data root.
C16_HopsSequential ==
    /\ ~NoHopStepYet =>
          /\ ChainBuilt
          /\ Len(upgrade_pairs) = target_version - source_version
          /\ old_version = NoDesc
    /\ \A i, j \in DOMAIN AllHopSteps :
          i < j =>
             /\ HopOf(AllHopSteps[i]) <= HopOf(AllHopSteps[j])
             /\ ~(/\ StepKind(AllHopSteps[i]) = StepKind(AllHopSteps[j])
                  /\ HopOf(AllHopSteps[i]) = HopOf(AllHopSteps[j]))
    /\ \A i \in DOMAIN AllHopSteps :
          (IsInitdb(AllHopSteps[i]) /\ i > 1) =>
             /\ IsPurge(AllHopSteps[i - 1])
             /\ HopOf(AllHopSteps[i - 1]) = HopOf(AllHopSteps[i]) - 1
    /\ (pc = "initdb" /\ hop >= 2) => dataRootFiles \cap CleanedUp = {}

\* The second hop of a chain is about to start.
C16_Witness ==
    /\ pc = "initdb"
    /\ hop = 2
    /\ IsPurge(log[Len(log)])

\* The real upgrade to version v has exited with status 0.
Upgraded(v) ==
    \E i \in DOMAIN log :
       IsRealUpgrade(log[i]) /\ log[i].rc = 0 /\ log[i].v = v

\* Some version holds the data: its data directory exists and it is the source
\* version or the target of a hop whose real upgrade succeeded.
Holder ==
    \E v \in Versions :
       /\ dataDir[v].exists
       /\ \/ v = source_version
          \/ v \in (source_version + 1)..target_version /\ Upgraded(v)

\* The run started with a data directory of the source version: it is still
\* there, or a hop has purged it.
StartedWithSource ==
    \/ dataDir[source_version].exists
    \/ \E i \in DOMAIN log : IsPurge(log[i]) /\ log[i].v = source_version

\* C17 as stated: in every reachable state of every run some version holds
\* the data.
C17_AlwaysAHolder == Holder

\* C17 as amended: in every reachable state of a run that started with a data
\* directory of the source version some version holds the data.
C17_HolderOnceSourceExists == StartedWithSource => Holder

\* The second hop of a chain has failed after the source was purged: the
\* intermediate version holds the data.
C17_Witness ==
    /\ pc = "failed"
    /\ hop = 2
    /\ ~dataDir[source_version].exists
    /\ dataDir[source_version + 1].exists
    /\ Upgraded(source_version + 1)

\* C18 as stated: when a hop's upgrade command is about to run (check or
\* real), the configuration file each side's options name holds the override
\* block of that side's descriptor: its port is the --old-port / --new-port of
\* the command, and the new side's block carries the maintenance_work_mem
\* statement.
C18_ConfMatchesDescriptor ==
    pc \in {"check", "upgrade"} =>
       LET old_conf == tmpConf[upgrade_command.old_options]
           new_conf == tmpConf[upgrade_command.new_options]
       IN  /\ old_conf.exists
           /\ new_conf.exists
           /\ Len(old_conf.overrides) = 1
           /\ Len(new_conf.overrides) = 1
           /\ old_conf.overrides[1].port = upgrade_command.old_port
           /\ new_conf.overrides[1].port = upgrade_command.new_port
           /\ maintenance_work_mem_statement # <<>>
           /\ new_conf.overrides[1].extra = maintenance_work_mem_statement

\* The step of the leftover loop as C19 states it: it ends in the next
\* statement of the run (the memory limit that precedes chain building) and
\* leaves no file in the data root that a pattern matches.
CruftLoopDeletes ==
    pc = "remove_cruft" =>
       /\ pc' = "container_memory_limit"
       /\ error' = NoError
       /\ \A i \in DOMAIN patterns : Matches(patterns[i], dataRootFiles') = {}

\* C19 as stated: leftover files matching pg_*.log, pg_*.custom or
\* pg_upgrade_dump_globals.sql are deleted before sequencing and the run
\* continues; their presence does not make the run fail.
C19_CruftDeletedRunContinues == [][CruftLoopDeletes]_vars

\* The statements of the script itself: every one of them is a blocking call
\* that returns (an external command that terminates, a file operation, one
\* connection attempt followed by a sleep of a second) and the interpreter
\* then goes on to the next one. What the server process does (ServerListens,
\* ServerExits) is not among them.
Statements ==
    \/ Preflight
    \/ UpdateMemoryConfig
    \/ RemoveCruft
    \/ ContainerMemoryLimit
    \/ SequenceOld
    \/ SequenceNew
    \/ Initdb
    \/ UpgradeCheck
    \/ Upgrade
    \/ Purge
    \/ Cleanup
    \/ StartPostgres
    \/ WaitForPostgres
    \/ PostgresIsUp
    \/ Vacuumdb
    \/ Terminate

\* The run under the assumption that every statement it reaches completes.
\* Nothing is assumed about the server process.
FairSpec == Spec /\ WF_vars(Statements)

\* The run has ended, with success or with an error.
Ended == pc \in {"done", "failed"}
\* The final server, once started, eventually accepts connections.
ServerComesUp == [](postgres_proc = "started" => <>(postgres_proc = "listening"))
\* The readiness loop polls a server process that has exited.
PollingDeadServer == pc = "wait" /\ postgres_proc = "dead" /\ error = NoError

\* C20: when every statement completes and the started server eventually
\* listens, the run ends; and once the started server has exited without
\* listening, the run stays in the readiness loop forever: it neither ends
\* nor reports a failure.
C20_EndsIffServerComesUp ==
    /\ ServerComesUp => <>Ended
    /\ [](PollingDeadServer => [](PollingDeadServer /\ ~Ended))

\* C20 witness: the server exited before listening and the loop has made
\* MaxPolls failed attempts, still without an error.
C20_Witness == PollingDeadServer /\ polls = MaxPolls

====
